---- MODULE Spec2Model ----
(***************************************************************************)
(* Model of src/src/Banner.ts: the drag handlers of one banner image       *)
(* (handleDragStart, handleDragMove, handleDragEnd), the helpers they use  *)
(* and the part of getBannerElements that builds the drag session, the     *)
(* initial object-position and the event handlers.                         *)
(*                                                                         *)
(* Numbers.  A displayed percentage p% is the integer p * Scale, so that   *)
(* every pixel delta over every rendered dimension of Geometries is exact. *)
(* A normalized coordinate v (banner metadata, persisted patch) is the     *)
(* integer v * 100000.  IEEE doubles are modelled as exact rationals plus  *)
(* NaN and the two infinities; the 1e-14 noise of doubles is not modelled. *)
(***************************************************************************)
EXTENDS Integers, Sequences, FiniteSets, TLC

\* ------------------------------------------------------------------ bounds
\* Start events stop arriving once this many starts have been accepted.
MaxGestures == 2

\* Units of a displayed percentage: 1% is Scale units.
Scale == 3 * 1000
\* Units of a normalized coordinate: 1.0 is Unit5 units (5 decimals).
Unit5 == 100 * 1000
Percent100 == 100 * Scale

\* ------------------------------------------------------- JavaScript values
Fin(n) == [t |-> "fin", v |-> n]
NaN == [t |-> "nan", v |-> 0]
PosInf == [t |-> "inf", v |-> 1]
NegInf == [t |-> "inf", v |-> -1]
Null == [t |-> "null", v |-> 0]
Undefined == [t |-> "undefined", v |-> 0]

IsFin(a) == a.t = "fin"

\* ToNumber: null converts to 0, undefined to NaN.
ToNumber(a) ==
  IF a.t = "null" THEN Fin(0)
  ELSE IF a.t = "undefined" THEN NaN
  ELSE a

\* a - b on pixel coordinates.
JsSub(a, b) ==
  LET x == ToNumber(a)
      y == ToNumber(b)
  IN IF IsFin(x) /\ IsFin(y) THEN Fin(x.v - y.v) ELSE NaN

\* (d / dimension) * 100 for a pixel difference d and a dimension in pixels,
\* in percentage units.  Division by zero gives an infinity, 0/0 gives NaN.
PixelsToPercent(d, dimension) ==
  IF ~IsFin(d) THEN NaN
  ELSE IF dimension = 0
    THEN (IF d.v = 0 THEN NaN ELSE IF d.v > 0 THEN PosInf ELSE NegInf)
    ELSE Fin((d.v * 100 * Scale) \div dimension)

\* a + b on percentages.
JsAdd(a, b) ==
  IF a.t = "nan" \/ b.t = "nan" THEN NaN
  ELSE IF IsFin(a) /\ IsFin(b) THEN Fin(a.v + b.v)
  ELSE IF IsFin(a) THEN b
  ELSE IF IsFin(b) THEN a
  ELSE IF a.v = b.v THEN a ELSE NaN

\* lodash clamp(number, lower, upper) with finite bounds: NaN stays NaN.
clamp(number, lower, upper) ==
  IF number.t = "nan" THEN NaN
  ELSE IF number.t = "inf" THEN (IF number.v > 0 THEN Fin(upper) ELSE Fin(lower))
  ELSE Fin(IF number.v < lower THEN lower
           ELSE IF number.v > upper THEN upper ELSE number.v)

\* a >= b on ratios n/d of non-negative pixel dimensions: any comparison
\* with NaN (0/0) is false, n/0 with n > 0 is +Infinity.
Ratio(n, d) ==
  IF d = 0 THEN (IF n = 0 THEN NaN ELSE PosInf) ELSE [t |-> "ratio", n |-> n, d |-> d]

RatioGeq(a, b) ==
  IF a.t = "nan" \/ b.t = "nan" THEN FALSE
  ELSE IF a.t = "inf" THEN TRUE
  ELSE IF b.t = "inf" THEN FALSE
  ELSE a.n * b.d >= b.n * a.d

\* Math.round: to the nearest integer, halves towards +Infinity.  The
\* argument is the rational num / den with den > 0.
MathRound(num, den) == (2 * num + den) \div (2 * den)

\* ------------------------------------------------------------ input sets
\* BannerDragModOption (src/src/Settings): the modifier-key policy.
ModOptions == {"none", "alt", "ctrl", "meta", "shift"}

\* The modifier keys held while an event is dispatched.
KeyStates == { {}, {"alt"}, {"ctrl"}, {"meta"}, {"shift"} }

\* Client coordinates of a pointer.
Pointers == { [clientX |-> 100, clientY |-> 100],
              [clientX |-> 100, clientY |-> 50],
              [clientX |-> 0, clientY |-> 100] }

\* The image element as an event target: rendered and natural dimensions.
Geometry(cw, ch, nw, nh) ==
  [clientWidth |-> cw, clientHeight |-> ch, naturalWidth |-> nw, naturalHeight |-> nh]

\* The dimensions of a laid-out image; the natural ones are 0 until it loads.
Geometries == { Geometry(200, 300, 400, 800),    \* cropped top and bottom
                Geometry(200, 300, 800, 600),    \* cropped left and right
                Geometry(400, 300, 800, 600),    \* equal aspect ratios
                Geometry(200, 300, 0, 0) }       \* not loaded yet

\* e.targetTouches of a touch event a browser dispatches to the image: the
\* touches that started on it, the one that caused the event included.
TouchLists ==
  { <<p>> : p \in Pointers } \cup
  { <<pq[1], pq[2]>> : pq \in { r \in Pointers \X Pointers : r[1].clientY < r[2].clientY
                                                              /\ r[1].clientX > r[2].clientX } }

\* IBannerMetadata as read from the frontmatter: x and y are optional and
\* not validated, in units of 1/Unit5.
Metadata(x, y, lock) == [x |-> x, y |-> y, lock |-> lock]

BannerDataInputs ==
  { Metadata(Fin(25000), Undefined, FALSE),
    Metadata(Fin(-50000), Fin(150000), FALSE),
    Metadata(Undefined, Fin(33300), TRUE) }

\* ----------------------------------------------------------------- events
MouseEvent(p, keys, target) ==
  [isMouse |-> TRUE, clientX |-> p.clientX, clientY |-> p.clientY,
   targetTouches |-> <<>>, keys |-> keys, target |-> target]

TouchEvent(touches, keys, target) ==
  [isMouse |-> FALSE, clientX |-> 0, clientY |-> 0,
   targetTouches |-> touches, keys |-> keys, target |-> target]

\* -------------------------------------------------------------- Banner.ts
\* getMousePos throws a TypeError when a touch event has no target touch.
getMousePosThrows(e) == ~e.isMouse /\ Len(e.targetTouches) = 0

getMousePos(e) ==
  IF e.isMouse
    THEN [x |-> Fin(e.clientX), y |-> Fin(e.clientY)]
    ELSE [x |-> Fin(e.targetTouches[1].clientX), y |-> Fin(e.targetTouches[1].clientY)]

isModPressed(e, mod) ==
  CASE mod = "alt" -> "alt" \in e.keys
    [] mod = "ctrl" -> "ctrl" \in e.keys
    [] mod = "meta" -> "meta" \in e.keys
    [] mod = "shift" -> "shift" \in e.keys
    [] OTHER -> TRUE

\* The result of a handler: the drag session and the style it leaves, the
\* persistence calls it issued and how it exited: "return" at its guard,
\* "throw" out of getMousePos, "end" after running its body.
Outcome(dragData, objectPosition, issued, exit) ==
  [dragData |-> dragData, objectPosition |-> objectPosition,
   issued |-> issued, exit |-> exit]

decideVertical(target) ==
  RatioGeq(Ratio(target.naturalHeight, target.naturalWidth),
           Ratio(target.clientHeight, target.clientWidth))

\* Mutant: the modifier policy gates touch starts too.
handleDragStart_gatesTouch(e, dragData, modRequired, objectPosition) ==
  IF ~isModPressed(e, modRequired)
    THEN Outcome(dragData, objectPosition, <<>>, "return")
  ELSE LET pos == getMousePos(e)
       IN Outcome([x |-> pos.x, y |-> pos.y, isDragging |-> TRUE,
                   vertical |-> decideVertical(e.target)],
                  objectPosition, <<>>, "end")

\* Mutant: a mouse start refused for its modifier cancels the drag.
handleDragStart_refusalCancels(e, dragData, modRequired, objectPosition) ==
  IF ~isModPressed(e, modRequired) /\ e.isMouse
    THEN Outcome([dragData EXCEPT !.isDragging = FALSE], objectPosition, <<>>, "return")
  ELSE IF getMousePosThrows(e)
    THEN Outcome(dragData, objectPosition, <<>>, "throw")
  ELSE LET pos == getMousePos(e)
       IN Outcome([x |-> pos.x, y |-> pos.y, isDragging |-> TRUE,
                   vertical |-> decideVertical(e.target)],
                  objectPosition, <<>>, "end")

handleDragStart(e, dragData, modRequired, objectPosition) ==
  IF ~isModPressed(e, modRequired) /\ e.isMouse
    THEN Outcome(dragData, objectPosition, <<>>, "return")
  ELSE IF getMousePosThrows(e)
    THEN Outcome(dragData, objectPosition, <<>>, "throw")
  ELSE LET pos == getMousePos(e)
       IN Outcome([x |-> pos.x, y |-> pos.y, isDragging |-> TRUE,
                   vertical |-> decideVertical(e.target)],
                  objectPosition, <<>>, "end")

\* img.style.objectPosition = `${a}% ${b}%`: a declaration whose value does
\* not parse as a position (a NaN component) is dropped by the style
\* object and the previous value stays.
setObjectPosition(objectPosition, a, b) ==
  IF IsFin(a) /\ IsFin(b) THEN <<a.v, b.v>> ELSE objectPosition

\* img.style.objectPosition.split(' ').map(n => parseFloat(n))
parseObjectPosition(objectPosition) ==
  [i \in 1..Len(objectPosition) |-> Fin(objectPosition[i])]

\* Mutant: the move applies both deltas, whatever the lock.
handleDragMove_bothAxes(e, dragData, objectPosition) ==
  IF ~dragData.isDragging
    THEN Outcome(dragData, objectPosition, <<>>, "return")
  ELSE LET img == e.target
           pos == getMousePos(e)
           delta == [x |-> PixelsToPercent(JsSub(dragData.x, pos.x), img.clientWidth),
                     y |-> PixelsToPercent(JsSub(dragData.y, pos.y), img.clientHeight)]
           moved == [dragData EXCEPT !.x = pos.x, !.y = pos.y]
           current == parseObjectPosition(objectPosition)
           newX == clamp(JsAdd(current[1], delta.x), 0, Percent100)
           newY == clamp(JsAdd(current[2], delta.y), 0, Percent100)
       IN Outcome(moved, setObjectPosition(objectPosition, newX, newY), <<>>, "end")

\* Mutant: the move decides the lock again from the dimensions it sees.
handleDragMove_relocks(e, dragData, objectPosition) ==
  IF ~dragData.isDragging
    THEN Outcome(dragData, objectPosition, <<>>, "return")
  ELSE LET img == e.target
           pos == getMousePos(e)
           vertical == decideVertical(img)
           delta == [x |-> PixelsToPercent(JsSub(dragData.x, pos.x), img.clientWidth),
                     y |-> PixelsToPercent(JsSub(dragData.y, pos.y), img.clientHeight)]
           moved == [dragData EXCEPT !.x = pos.x, !.y = pos.y, !.vertical = vertical]
           current == parseObjectPosition(objectPosition)
       IN IF vertical
            THEN Outcome(moved, setObjectPosition(objectPosition, current[1],
                           clamp(JsAdd(current[2], delta.y), 0, Percent100)), <<>>, "end")
            ELSE Outcome(moved, setObjectPosition(objectPosition,
                           clamp(JsAdd(current[1], delta.x), 0, Percent100), current[2]),
                         <<>>, "end")

\* Mutant: the move has no isDragging guard.
handleDragMove_unguarded(e, dragData, objectPosition) ==
  LET img == e.target
      pos == getMousePos(e)
      delta == [x |-> PixelsToPercent(JsSub(dragData.x, pos.x), img.clientWidth),
                y |-> PixelsToPercent(JsSub(dragData.y, pos.y), img.clientHeight)]
      moved == [dragData EXCEPT !.x = pos.x, !.y = pos.y]
      current == parseObjectPosition(objectPosition)
  IN IF dragData.vertical
       THEN Outcome(moved, setObjectPosition(objectPosition, current[1],
                      clamp(JsAdd(current[2], delta.y), 0, Percent100)), <<>>, "end")
       ELSE Outcome(moved, setObjectPosition(objectPosition,
                      clamp(JsAdd(current[1], delta.x), 0, Percent100), current[2]),
                    <<>>, "end")

\* Mutant: the move stores the pointer only when it moved the position.
handleDragMove_keepsPointerWhenClamped(e, dragData, objectPosition) ==
  IF ~dragData.isDragging
    THEN Outcome(dragData, objectPosition, <<>>, "return")
  ELSE LET img == e.target
           pos == getMousePos(e)
           delta == [x |-> PixelsToPercent(JsSub(dragData.x, pos.x), img.clientWidth),
                     y |-> PixelsToPercent(JsSub(dragData.y, pos.y), img.clientHeight)]
           current == parseObjectPosition(objectPosition)
           new == IF dragData.vertical
                    THEN setObjectPosition(objectPosition, current[1],
                           clamp(JsAdd(current[2], delta.y), 0, Percent100))
                    ELSE setObjectPosition(objectPosition,
                           clamp(JsAdd(current[1], delta.x), 0, Percent100), current[2])
           moved == IF new = objectPosition THEN dragData
                    ELSE [dragData EXCEPT !.x = pos.x, !.y = pos.y]
       IN Outcome(moved, new, <<>>, "end")

\* Mutant: every active move persists the position it wrote.
handleDragMove_persists(e, dragData, objectPosition) ==
  IF ~dragData.isDragging
    THEN Outcome(dragData, objectPosition, <<>>, "return")
  ELSE LET img == e.target
           pos == getMousePos(e)
           delta == [x |-> PixelsToPercent(JsSub(dragData.x, pos.x), img.clientWidth),
                     y |-> PixelsToPercent(JsSub(dragData.y, pos.y), img.clientHeight)]
           moved == [dragData EXCEPT !.x = pos.x, !.y = pos.y]
           current == parseObjectPosition(objectPosition)
           new == IF dragData.vertical
                    THEN setObjectPosition(objectPosition, current[1],
                           clamp(JsAdd(current[2], delta.y), 0, Percent100))
                    ELSE setObjectPosition(objectPosition,
                           clamp(JsAdd(current[1], delta.x), 0, Percent100), current[2])
       IN Outcome(moved, new,
                  <<[path |-> "note.md",
                     patch |-> IF dragData.vertical THEN [y |-> new[2]] ELSE [x |-> new[1]]]>>,
                  "end")

handleDragMove(e, dragData, objectPosition) ==
  IF ~dragData.isDragging
    THEN Outcome(dragData, objectPosition, <<>>, "return")
  ELSE IF getMousePosThrows(e)
    THEN Outcome(dragData, objectPosition, <<>>, "throw")
  ELSE LET img == e.target
           pos == getMousePos(e)
           delta == [x |-> PixelsToPercent(JsSub(dragData.x, pos.x), img.clientWidth),
                     y |-> PixelsToPercent(JsSub(dragData.y, pos.y), img.clientHeight)]
           moved == [dragData EXCEPT !.x = pos.x, !.y = pos.y]
           current == parseObjectPosition(objectPosition)
           currentX == current[1]
           currentY == current[2]
       IN IF dragData.vertical
            THEN LET newY == clamp(JsAdd(currentY, delta.y), 0, Percent100)
                 IN Outcome(moved, setObjectPosition(objectPosition, currentX, newY),
                            <<>>, "end")
            ELSE LET newX == clamp(JsAdd(currentX, delta.x), 0, Percent100)
                 IN Outcome(moved, setObjectPosition(objectPosition, newX, currentY),
                            <<>>, "end")

\* Mutant: the percentage is rounded to 2 decimals.
roundToNormalized_2decimals(n) == MathRound(n.v * 100, Scale) * 10

\* Math.round(parseFloat(n) * 1000) / 100000, in units of 1/Unit5.
roundToNormalized(n) == MathRound(n.v * 1000, Scale)

\* Mutant: the release leaves isDragging set.
handleDragEnd_keepsDragging(objectPosition, path, dragData) ==
  IF ~dragData.isDragging
    THEN Outcome(dragData, objectPosition, <<>>, "return")
  ELSE LET xy == [i \in 1..Len(objectPosition) |->
                    roundToNormalized(parseObjectPosition(objectPosition)[i])]
           patch == IF dragData.vertical THEN [y |-> xy[2]] ELSE [x |-> xy[1]]
       IN Outcome(dragData, objectPosition, <<[path |-> path, patch |-> patch]>>, "end")

\* Mutant: the release persists both axes.
handleDragEnd_bothAxes(objectPosition, path, dragData) ==
  IF ~dragData.isDragging
    THEN Outcome(dragData, objectPosition, <<>>, "return")
  ELSE LET ended == [dragData EXCEPT !.isDragging = FALSE]
           xy == [i \in 1..Len(objectPosition) |->
                    roundToNormalized(parseObjectPosition(objectPosition)[i])]
       IN Outcome(ended, objectPosition,
                  <<[path |-> path, patch |-> [x |-> xy[1], y |-> xy[2]]]>>, "end")

\* Mutant: the release persists each axis with a call of its own.
handleDragEnd_twoCalls(objectPosition, path, dragData) ==
  IF ~dragData.isDragging
    THEN Outcome(dragData, objectPosition, <<>>, "return")
  ELSE LET ended == [dragData EXCEPT !.isDragging = FALSE]
           xy == [i \in 1..Len(objectPosition) |->
                    roundToNormalized(parseObjectPosition(objectPosition)[i])]
       IN Outcome(ended, objectPosition,
                  <<[path |-> path, patch |-> [x |-> xy[1]]],
                    [path |-> path, patch |-> [y |-> xy[2]]]>>, "end")

handleDragEnd(objectPosition, path, dragData) ==
  IF ~dragData.isDragging
    THEN Outcome(dragData, objectPosition, <<>>, "return")
  ELSE LET ended == [dragData EXCEPT !.isDragging = FALSE]
           xy == [i \in 1..Len(objectPosition) |->
                    roundToNormalized(parseObjectPosition(objectPosition)[i])]
           patch == IF dragData.vertical THEN [y |-> xy[2]] ELSE [x |-> xy[1]]
       IN Outcome(ended, objectPosition, <<[path |-> path, patch |-> patch]>>, "end")

\* Mutant: the release issues its call again when the promise is rejected.
resumeDragEnd_retries(result, call, objectPosition, dragData) ==
  IF result = "rejected"
    THEN Outcome(dragData, objectPosition, <<call>>, "end")
    ELSE Outcome(dragData, objectPosition, <<>>, "end")

\* handleDragEnd from its await on: the awaited call was its last statement,
\* so it ends when the promise is fulfilled and, having no catch, throws the
\* rejection on to its own promise when it is rejected.
resumeDragEnd(result, call, objectPosition, dragData) ==
  Outcome(dragData, objectPosition, <<>>, IF result = "rejected" THEN "throw" ELSE "end")

\* clampedX * 100: a normalized coordinate as a displayed percentage.
normalizedToPercent(c) ==
  IF IsFin(c) THEN Fin((c.v * Scale) \div (Unit5 \div 100)) ELSE c

\* The handlers getBannerElements attaches: the start and move handlers on
\* the image, the release handlers on contentEl.parentElement.
MouseHandlers == {"onmousedown", "onmousemove", "onmouseup"}
TouchHandlers == {"ontouchstart", "ontouchmove", "ontouchend"}

Settings(mod, allowMobileDrag) ==
  [bannerDragModifier |-> mod, allowMobileDrag |-> allowMobileDrag]

\* plugin.settings when the banner is rendered.
SettingsInputs ==
  { Settings(mod, TRUE) : mod \in ModOptions } \cup
  { Settings("ctrl", FALSE) }

\* Mutant: a locked banner can be dragged.
canDragOf_ignoresLock(bannerData, isEmbed) == ~isEmbed

canDragOf(bannerData, isEmbed) == ~isEmbed /\ ~bannerData.lock

\* Mutant: the metadata is displayed without clamping.
getBannerElements_unclamped(settings, bannerData, isEmbed) ==
  LET x == IF bannerData.x = Undefined THEN Fin(Unit5 \div 2) ELSE bannerData.x
      y == IF bannerData.y = Undefined THEN Fin(Unit5 \div 2) ELSE bannerData.y
      canDrag == canDragOf(bannerData, isEmbed)
  IN [bannerDragModifier |-> settings.bannerDragModifier,
      dragData |-> [x |-> Null, y |-> Null, isDragging |-> FALSE, vertical |-> TRUE],
      objectPosition |-> setObjectPosition(<<>>, normalizedToPercent(x),
                                           normalizedToPercent(y)),
      handlers |-> IF ~canDrag THEN {}
                   ELSE IF settings.allowMobileDrag
                     THEN MouseHandlers \cup TouchHandlers
                     ELSE MouseHandlers]

getBannerElements(settings, bannerData, isEmbed) ==
  LET x == IF bannerData.x = Undefined THEN Fin(Unit5 \div 2) ELSE bannerData.x
      y == IF bannerData.y = Undefined THEN Fin(Unit5 \div 2) ELSE bannerData.y
      canDrag == canDragOf(bannerData, isEmbed)
      clampedX == clamp(x, 0, Unit5)
      clampedY == clamp(y, 0, Unit5)
  IN [bannerDragModifier |-> settings.bannerDragModifier,
      dragData |-> [x |-> Null, y |-> Null, isDragging |-> FALSE, vertical |-> TRUE],
      objectPosition |-> setObjectPosition(<<>>, normalizedToPercent(clampedX),
                                           normalizedToPercent(clampedY)),
      handlers |-> IF ~canDrag THEN {}
                   ELSE IF settings.allowMobileDrag
                     THEN MouseHandlers \cup TouchHandlers
                     ELSE MouseHandlers]

\* MetaManager.upsertBannerData: the patch's fields replace the stored ones.
upsertBannerData(bannerData, patch) ==
  [f \in DOMAIN bannerData |-> IF f \in DOMAIN patch THEN Fin(patch[f]) ELSE bannerData[f]]

RECURSIVE upsertAll(_, _)
upsertAll(bannerData, issued) ==
  IF issued = <<>> THEN bannerData
  ELSE upsertAll(upsertBannerData(bannerData, Head(issued).patch), Tail(issued))

\* ------------------------------------------------------------------ state
VARIABLES
  rendered,            \* the arguments of the getBannerElements call in force
  bannerDragModifier,  \* the policy captured by the handlers' closures
  handlers,            \* the handlers attached by getBannerElements
  dragData,            \* the IDragData of the banner
  objectPosition,      \* img.style.objectPosition as <<X, Y>> percentages
  img,                 \* the image's rendered and natural dimensions
  calls,               \* the upsertBannerData calls issued, in order
  promises,            \* the state of the promise each call returned
  settings,            \* plugin.settings as it stands now
  starts,              \* history: number of accepted starts
  lastEvent,           \* history: the event dispatched last
  activatedAt          \* history: objectPosition when the session became active

vars == <<rendered, bannerDragModifier, handlers, dragData, objectPosition, img,
          calls, promises, settings, starts, lastEvent, activatedAt>>

filepath == "note.md"

Render(s, bannerData, isEmbed) ==
  LET els == getBannerElements(s, bannerData, isEmbed)
  IN /\ rendered' = [settings |-> s, bannerData |-> bannerData, isEmbed |-> isEmbed]
     /\ bannerDragModifier' = els.bannerDragModifier
     /\ handlers' = els.handlers
     /\ dragData' = els.dragData
     /\ objectPosition' = els.objectPosition

Init ==
  \E s \in SettingsInputs, bd \in BannerDataInputs, emb \in BOOLEAN :
    LET els == getBannerElements(s, bd, emb)
    IN /\ rendered = [settings |-> s, bannerData |-> bd, isEmbed |-> emb]
       /\ settings = s
       /\ bannerDragModifier = els.bannerDragModifier
       /\ handlers = els.handlers
       /\ dragData = els.dragData
       /\ objectPosition = els.objectPosition
       /\ img \in Geometries
       /\ calls = <<>>
       /\ promises = <<>>
       /\ starts = 0
       /\ lastEvent = [kind |-> "render"]
       /\ activatedAt = <<>>

\* What a handler leaves behind; every call it issued returned a promise
\* that is pending.
Apply(out) ==
  /\ dragData' = out.dragData
  /\ objectPosition' = out.objectPosition
  /\ calls' = calls \o out.issued
  /\ promises' = promises \o [i \in 1..Len(out.issued) |-> "pending"]

Idle == UNCHANGED <<dragData, objectPosition, calls, promises>>

\* History: the displayed position at the step that made the session active,
\* kept while it is active.
Track ==
  activatedAt' = IF ~dragData'.isDragging THEN <<>>
                 ELSE IF ~dragData.isDragging THEN objectPosition
                 ELSE activatedAt

\* A call issued by a release has not settled yet.
Pending == \E i \in DOMAIN promises : promises[i] = "pending"

\* Mutant: a start is refused while a persistence call is pending.
DispatchStart_waitsForCalls(kind, e) ==
  /\ starts < MaxGestures
  /\ lastEvent' = [kind |-> kind, e |-> e]
  /\ IF kind \in handlers /\ ~Pending
       THEN LET out == handleDragStart(e, dragData, bannerDragModifier, objectPosition)
            IN /\ Apply(out)
               /\ starts' = IF out.exit = "end" THEN starts + 1 ELSE starts
       ELSE Idle /\ UNCHANGED starts
  /\ UNCHANGED <<rendered, bannerDragModifier, handlers, img, settings>>

\* A start event on the image, for img.onmousedown or img.ontouchstart.
DispatchStart(kind, e) ==
  /\ starts < MaxGestures
  /\ lastEvent' = [kind |-> kind, e |-> e]
  /\ IF kind \in handlers
       THEN LET out == handleDragStart(e, dragData, bannerDragModifier, objectPosition)
            IN /\ Apply(out)
               /\ starts' = IF out.exit = "end" THEN starts + 1 ELSE starts
       ELSE Idle /\ UNCHANGED starts
  /\ UNCHANGED <<rendered, bannerDragModifier, handlers, img, settings>>

MouseDown ==
  /\ \E p \in Pointers, keys \in KeyStates :
       DispatchStart("onmousedown", MouseEvent(p, keys, img))
  /\ UNCHANGED activatedAt

TouchStart ==
  /\ \E touches \in TouchLists, keys \in KeyStates :
       DispatchStart("ontouchstart", TouchEvent(touches, keys, img))
  /\ UNCHANGED activatedAt

\* A move event on the image, for img.onmousemove or img.ontouchmove.
DispatchMove(kind, e) ==
  /\ lastEvent' = [kind |-> kind, e |-> e]
  /\ IF kind \in handlers
       THEN Apply(handleDragMove(e, dragData, objectPosition))
       ELSE Idle
  /\ UNCHANGED <<rendered, bannerDragModifier, handlers, img, settings, starts>>

MouseMove ==
  /\ \E p \in Pointers :
       DispatchMove("onmousemove", MouseEvent(p, {}, img))
  /\ UNCHANGED activatedAt

TouchMove ==
  /\ \E touches \in TouchLists :
       DispatchMove("ontouchmove", TouchEvent(touches, {}, img))
  /\ UNCHANGED activatedAt

\* A release event on contentEl.parentElement, for onmouseup or ontouchend.
DispatchEnd(kind) ==
  /\ lastEvent' = [kind |-> kind]
  /\ IF kind \in handlers
       THEN Apply(handleDragEnd(objectPosition, filepath, dragData))
       ELSE Idle
  /\ UNCHANGED <<rendered, bannerDragModifier, handlers, img, settings, starts>>

MouseUp == DispatchEnd("onmouseup") /\ UNCHANGED activatedAt

TouchEnd == DispatchEnd("ontouchend") /\ UNCHANGED activatedAt

\* The layout or the loading of the image changes its dimensions to one of gs.
ResizeTo(gs) ==
  /\ \E g \in gs : g # img /\ img' = g
  /\ lastEvent' = [kind |-> "resize"]
  /\ UNCHANGED <<rendered, bannerDragModifier, handlers, dragData, objectPosition,
                 calls, promises, settings, starts>>

Resize == ResizeTo(Geometries) /\ UNCHANGED activatedAt

\* The note is rendered again from its metadata after the upserts issued so
\* far have been stored: a new image, session and set of handlers.
Rerender ==
  /\ calls # <<>>
  /\ lastEvent.kind # "render"
  /\ Render(settings, upsertAll(rendered.bannerData, calls), rendered.isEmbed)
  /\ img' \in Geometries
  /\ lastEvent' = [kind |-> "render"]
  /\ UNCHANGED <<calls, promises, settings, starts, activatedAt>>

Next ==
  \/ MouseDown
  \/ TouchStart
  \/ MouseMove
  \/ TouchMove
  \/ MouseUp
  \/ TouchEnd
  \/ Resize

Spec == Init /\ [][Next]_vars

\* A draggable banner with the mouse and the touch handlers, rendered again
\* from the stored metadata any time after a commit.
InitRoundTrip ==
  /\ Init
  /\ rendered.settings = Settings("none", TRUE)
  /\ canDragOf(rendered.bannerData, rendered.isEmbed)

NextRoundTrip == Next \/ Rerender

SpecRoundTrip == InitRoundTrip /\ [][NextRoundTrip]_vars

\* A draggable banner whose plugin settings are edited while it is displayed.
InitSettings ==
  /\ Init
  /\ rendered.settings \in {Settings("ctrl", FALSE), Settings("none", TRUE)}
  /\ rendered.bannerData = Metadata(Fin(25000), Undefined, FALSE)
  /\ ~rendered.isEmbed

\* The values an edit gives plugin.settings.
SettingsEdits == {Settings("none", TRUE), Settings("ctrl", FALSE), Settings("shift", TRUE)}

\* The user edits plugin.settings; the elements getBannerElements built stay.
ChangeSettings ==
  /\ \E s \in SettingsEdits : s # settings /\ settings' = s
  /\ lastEvent' = [kind |-> "settings"]
  /\ UNCHANGED <<rendered, bannerDragModifier, handlers, dragData, objectPosition,
                 img, calls, promises, starts, activatedAt>>

NextSettings == Next \/ ChangeSettings

SpecSettings == InitSettings /\ [][NextSettings]_vars

\* A draggable banner whose persistence calls settle, each at any time after
\* it was issued and in any order.
InitAsync ==
  /\ Init
  /\ rendered.settings = Settings("none", TRUE)
  /\ rendered.bannerData = Metadata(Fin(25000), Undefined, FALSE)
  /\ ~rendered.isEmbed

\* The promise of a pending call settles and handleDragEnd resumes.
Settle(result) ==
  \E i \in DOMAIN promises :
    /\ promises[i] = "pending"
    /\ LET out == resumeDragEnd(result, calls[i], objectPosition, dragData)
       IN /\ dragData' = out.dragData
          /\ objectPosition' = out.objectPosition
          /\ calls' = calls \o out.issued
          /\ promises' = [promises EXCEPT ![i] = result]
                           \o [j \in 1..Len(out.issued) |-> "pending"]
    /\ lastEvent' = [kind |-> result, call |-> i]
    /\ UNCHANGED <<rendered, bannerDragModifier, handlers, img, settings, starts,
                   activatedAt>>

Resolve == Settle("fulfilled")

Reject == Settle("rejected")

NextAsync == Next \/ Resolve \/ Reject

SpecAsync == InitAsync /\ [][NextAsync]_vars

\* A draggable banner that also meets an image laid out with a zero width
\* or height and touch events that carry no target touch.
DegenerateGeometries == { Geometry(200, 0, 400, 800),    \* no height: vertical lock
                          Geometry(0, 300, 800, 600) }   \* no width: horizontal lock

InitDegenerate ==
  /\ Init
  /\ rendered.settings = Settings("none", TRUE)
  /\ rendered.bannerData = Metadata(Fin(25000), Undefined, FALSE)
  /\ ~rendered.isEmbed

ResizeDegenerate == ResizeTo(DegenerateGeometries) /\ UNCHANGED activatedAt

EmptyTouchStart ==
  /\ DispatchStart("ontouchstart", TouchEvent(<<>>, {}, img))
  /\ UNCHANGED activatedAt

EmptyTouchMove ==
  /\ DispatchMove("ontouchmove", TouchEvent(<<>>, {}, img))
  /\ UNCHANGED activatedAt

NextDegenerate == Next \/ ResizeDegenerate \/ EmptyTouchStart \/ EmptyTouchMove

SpecDegenerate == InitDegenerate /\ [][NextDegenerate]_vars

\* A draggable banner with the mouse handlers, and the history of where each
\* active period began.
InitTracked ==
  /\ Init
  /\ rendered.settings = Settings("ctrl", FALSE)
  /\ rendered.bannerData = Metadata(Fin(25000), Undefined, FALSE)
  /\ ~rendered.isEmbed

TrackedMouseDown ==
  /\ \E p \in Pointers, keys \in KeyStates :
       DispatchStart("onmousedown", MouseEvent(p, keys, img))
  /\ Track

TrackedMouseMove ==
  /\ \E p \in Pointers :
       DispatchMove("onmousemove", MouseEvent(p, {}, img))
  /\ Track

TrackedMouseUp == DispatchEnd("onmouseup") /\ Track

TrackedResize == ResizeTo(Geometries) /\ Track

NextTracked == TrackedMouseDown \/ TrackedMouseMove \/ TrackedMouseUp \/ TrackedResize

SpecTracked == InitTracked /\ [][NextTracked]_vars

\* ------------------------------------------------------- reading a step
StartKinds == {"onmousedown", "ontouchstart"}
MoveKinds == {"onmousemove", "ontouchmove"}
ReleaseKinds == {"onmouseup", "ontouchend"}

\* The step dispatches an event of one of these kinds to an attached handler.
Handles(kinds) == lastEvent'.kind \in kinds /\ lastEvent'.kind \in handlers

\* The client coordinates getMousePos reads from an event.
PointerOf(e) ==
  IF e.isMouse THEN [clientX |-> e.clientX, clientY |-> e.clientY]
  ELSE [clientX |-> e.targetTouches[1].clientX, clientY |-> e.targetTouches[1].clientY]

\* v (in 1/Unit5) is the displayed percentage p (in 1/Scale) divided by 100
\* and rounded to 5 decimals, halves up.
IsRoundedTo5(v, p) ==
  /\ 2 * v * Scale - Scale <= 2 * 1000 * p
  /\ 2 * 1000 * p < 2 * v * Scale + Scale

\* The percentage p (in 1/Scale) displays the metadata value c (in 1/Unit5).
RendersAs(p, c) ==
  IF c = Undefined THEN 2 * p = Percent100
  ELSE IF c.v <= 0 THEN p = 0
  ELSE IF c.v >= Unit5 THEN p = Percent100
  ELSE p * 1000 = c.v * Scale

\* What settings s say of a start event: a mouse start needs the modifier of
\* s, a touch start needs touch dragging enabled in s.
AllowedBy(s, e) ==
  IF e.isMouse THEN isModPressed(e, s.bannerDragModifier) ELSE s.allowMobileDrag

\* The rendered dimension a move divides by under the lock.
LockedDimension(target, vertical) ==
  IF vertical THEN target.clientHeight ELSE target.clientWidth

\* The step runs a start or move handler that exits by throwing.
Faults ==
  \/ /\ Handles(StartKinds)
     /\ handleDragStart(lastEvent'.e, dragData, bannerDragModifier,
                        objectPosition).exit = "throw"
  \/ /\ Handles(MoveKinds)
     /\ handleDragMove(lastEvent'.e, dragData, objectPosition).exit = "throw"

\* --------------------------------------------------------------- claims
\* C1: a release handled while the session is active issues exactly one
\* upsertBannerData call, a release handled while it is inactive issues
\* none, and the calls never outnumber the accepted starts (so a mouse-up
\* and a touch-end for the same gesture commit it once).
C1_ReleaseCommitsOnce ==
  /\ [][Handles(ReleaseKinds) =>
          IF dragData.isDragging
            THEN Len(calls') = Len(calls) + 1 /\ ~dragData'.isDragging
            ELSE calls' = calls]_vars
  /\ [](Len(calls) <= starts)

\* Both release handlers are attached, one gesture was started, it is
\* committed, and a release arrived last.
C1_Witness ==
  /\ ReleaseKinds \subseteq handlers
  /\ lastEvent.kind = "ontouchend"
  /\ starts = 1
  /\ Len(calls) = 1
  /\ ~dragData.isDragging

\* C2: the patch of a call has exactly one field, y under a vertical lock
\* and x under a horizontal one, and its value is the displayed percentage
\* of that axis at the release divided by 100, rounded to 5 decimals, in
\* [0,1].
C2_SingleAxisPatch ==
  [][Handles(ReleaseKinds) /\ dragData.isDragging =>
       /\ Len(calls') = Len(calls) + 1
       /\ LET patch == calls'[Len(calls')].patch
              axis == IF dragData.vertical THEN "y" ELSE "x"
              shown == IF dragData.vertical THEN objectPosition[2] ELSE objectPosition[1]
          IN /\ DOMAIN patch = {axis}
             /\ IsRoundedTo5(patch[axis], shown)
             /\ 0 <= patch[axis] /\ patch[axis] <= Unit5]_vars

\* A y patch whose value needed rounding and an x patch have been issued.
C2_Witness ==
  /\ \E i \in DOMAIN calls :
       /\ DOMAIN calls[i].patch = {"y"}
       /\ calls[i].patch.y % 1000 # 0
  /\ \E i \in DOMAIN calls : DOMAIN calls[i].patch = {"x"}

\* C3: a move handled while the session is active sets the displayed
\* component of the locked axis to clamp(current + (last - new) /
\* dimension * 100, 0, 100), with clientHeight and the y coordinates under
\* a vertical lock and clientWidth and the x coordinates under a
\* horizontal one, and leaves the other component as it was.
MovedTo(new, current, last, pointer, dimension) ==
  LET raw == current * dimension + (last - pointer) * 100 * Scale
  IN IF raw <= 0 THEN new = 0
     ELSE IF raw >= Percent100 * dimension THEN new = Percent100
     ELSE new * dimension = raw

C3_MoveAlongLockedAxis ==
  [][Handles(MoveKinds) /\ dragData.isDragging =>
       LET p == PointerOf(lastEvent'.e)
       IN IF dragData.vertical
            THEN /\ objectPosition'[1] = objectPosition[1]
                 /\ MovedTo(objectPosition'[2], objectPosition[2], dragData.y.v,
                            p.clientY, img.clientHeight)
            ELSE /\ objectPosition'[2] = objectPosition[2]
                 /\ MovedTo(objectPosition'[1], objectPosition[1], dragData.x.v,
                            p.clientX, img.clientWidth)]_vars

\* A diagonal move under a vertical lock has taken y from 100% to 83.333%
\* and left x at 0%.
C3_Witness ==
  /\ lastEvent.kind \in MoveKinds
  /\ dragData.isDragging /\ dragData.vertical
  /\ dragData.x = Fin(0) /\ dragData.y = Fin(100)
  /\ objectPosition = <<0, 250000>>

\* C4: an accepted start locks the vertical axis iff naturalHeight /
\* naturalWidth >= clientHeight / clientWidth (a 0/0 ratio compares false),
\* and from then until the release no move, refused start or change of the
\* image's dimensions changes the lock.
LocksVertical(g) ==
  IF (g.naturalWidth = 0 /\ g.naturalHeight = 0) \/ (g.clientWidth = 0 /\ g.clientHeight = 0)
    THEN FALSE
  ELSE IF g.naturalWidth = 0 THEN TRUE
  ELSE IF g.clientWidth = 0 THEN FALSE
  ELSE g.naturalHeight * g.clientWidth >= g.clientHeight * g.naturalWidth

AcceptsStart == Handles(StartKinds) /\ starts' = starts + 1

C5_StartPolicy ==
  /\ [][Handles(StartKinds) =>
          LET e == lastEvent'.e
          IN IF ~e.isMouse \/ bannerDragModifier = "none" \/ bannerDragModifier \in e.keys
               THEN dragData'.isDragging /\ starts' = starts + 1
               ELSE dragData' = dragData /\ starts' = starts]_vars
  /\ [](starts = 0 =>
          /\ ~dragData.isDragging
          /\ calls = <<>>
          /\ RendersAs(objectPosition[1], rendered.bannerData.x)
          /\ RendersAs(objectPosition[2], rendered.bannerData.y))

\* Under the policy "shift" a touch start with no key held was accepted.
C5_Witness ==
  /\ bannerDragModifier = "shift"
  /\ lastEvent.kind = "ontouchstart"
  /\ lastEvent.e.keys = {}
  /\ starts = 1
  /\ dragData.isDragging

\* C6: a move handled while the session is inactive leaves the displayed
\* position and every field of the drag session unchanged.
C6_InactiveMoveIsNoOp ==
  [][Handles(MoveKinds) /\ ~dragData.isDragging =>
       /\ objectPosition' = objectPosition
       /\ dragData' = dragData
       /\ calls' = calls]_vars

\* A move was handled after the release of a committed gesture.
C6_Witness ==
  /\ lastEvent.kind \in MoveKinds
  /\ lastEvent.kind \in handlers
  /\ ~dragData.isDragging
  /\ calls # <<>>

\* C7: both components of the displayed position are in [0%, 100%] in
\* every reachable state, and the rendered position is clamp(x, 0, 1) * 100
\* and clamp(y, 0, 1) * 100 with 0.5 for an absent value.
C7_PositionInRange ==
  /\ \A i \in {1, 2} : 0 <= objectPosition[i] /\ objectPosition[i] <= Percent100
  /\ Len(objectPosition) = 2
  /\ lastEvent.kind = "render" =>
       /\ RendersAs(objectPosition[1], rendered.bannerData.x)
       /\ RendersAs(objectPosition[2], rendered.bannerData.y)

\* A banner whose x was -0.5 in the metadata has been dragged to 100%.
C7_Witness ==
  /\ rendered.bannerData.x = Fin(-50000)
  /\ lastEvent.kind \in MoveKinds
  /\ dragData.isDragging
  /\ objectPosition[1] = Percent100

\* C8: the calls are issued in the order of the releases that end the
\* gestures: an active release appends exactly one call, carrying the
\* single-axis patch of the gesture it ends, after the calls of the earlier
\* gestures, and no other step changes the calls.
Nearest5(p) ==
  LET below == (1000 * p) \div Scale
  IN CHOOSE v \in {below, below + 1} : IsRoundedTo5(v, p)

PatchOf(position, vertical) ==
  IF vertical THEN [y |-> Nearest5(position[2])] ELSE [x |-> Nearest5(position[1])]

C8_CallsInReleaseOrder ==
  [][IF Handles(ReleaseKinds) /\ dragData.isDragging
       THEN calls' = Append(calls, [path |-> filepath,
                                    patch |-> PatchOf(objectPosition, dragData.vertical)])
       ELSE calls' = calls]_vars

\* Two gestures were completed: the first committed y, the second x.
C8_Witness ==
  /\ Len(calls) = 2
  /\ DOMAIN calls[1].patch = {"y"}
  /\ DOMAIN calls[2].patch = {"x"}
  /\ calls[1].patch.y # calls[2].patch.x

\* C9: in an embed, or with lock set in the metadata, no handler is
\* attached, and whatever events arrive the displayed position stays the
\* rendered one, the session stays inactive and no call is issued.
C9_NoDragWhenEmbeddedOrLocked ==
  rendered.isEmbed \/ rendered.bannerData.lock =>
    /\ handlers = {}
    /\ RendersAs(objectPosition[1], rendered.bannerData.x)
    /\ RendersAs(objectPosition[2], rendered.bannerData.y)
    /\ ~dragData.isDragging
    /\ calls = <<>>

\* A mouse move arrived on a locked banner outside an embed.
C9_Witness ==
  /\ rendered.bannerData.lock /\ ~rendered.isEmbed
  /\ lastEvent.kind = "onmousemove"

\* C10: when the banner is rendered again from the metadata holding the
\* value its last gesture committed, the committed axis is displayed at the
\* percentage it had at the commit, rounded to 3 decimals, and an axis the
\* metadata does not hold is displayed at 50%.
AxisOf(patch) == IF DOMAIN patch = {"x"} THEN 1 ELSE 2

\* No start was accepted since the last commit: the displayed position is
\* the one that commit read.
Committed == calls # <<>> /\ ~dragData.isDragging /\ Len(calls) = starts

C10_CommitRenderRoundTrip ==
  [][lastEvent'.kind = "render" =>
       /\ Committed =>
            LET i == AxisOf(calls[Len(calls)].patch)
            IN objectPosition'[i] * 1000 = Nearest5(objectPosition[i]) * Scale
       /\ rendered'.bannerData.x = Undefined => 2 * objectPosition'[1] = Percent100
       /\ rendered'.bannerData.y = Undefined => 2 * objectPosition'[2] = Percent100]_vars

\* The committed y of 16.6666...% came back as 16.667%, and x as committed.
C10_Witness ==
  /\ lastEvent.kind = "render"
  /\ Len(calls) = 1
  /\ calls[1].patch = [y |-> 16667]
  /\ objectPosition[2] = 50001

\* C11: a start event on a draggable banner is accepted exactly when the
\* settings as they stand at the start allow it: the modifier policy and the
\* touch-drag flag in force are the current ones, not those of the render.
C11_StartFollowsCurrentSettings ==
  [][lastEvent'.kind \in StartKinds
       /\ canDragOf(rendered.bannerData, rendered.isEmbed) =>
         (starts' = starts + 1 <=> AllowedBy(settings, lastEvent'.e))]_vars

\* C12: a move handled while the session is active, whose event carries a
\* pointer and whose target has a rendered dimension of zero on the locked
\* axis, leaves the displayed position as it was and does not throw.
C12_ZeroDimensionMoveSkipped ==
  [][(/\ Handles(MoveKinds)
      /\ dragData.isDragging
      /\ ~getMousePosThrows(lastEvent'.e)
      /\ LockedDimension(lastEvent'.e.target, dragData.vertical) = 0)
     => objectPosition' = objectPosition /\ ~Faults]_vars

\* C13: a touch start or touch move that carries no touch point changes
\* neither the session nor the displayed position nor the calls, and its
\* handler does not throw.
C13_EmptyTouchIsNoOp ==
  [][(Handles({"ontouchstart", "ontouchmove"}) /\ lastEvent'.e.targetTouches = <<>>)
     => /\ dragData' = dragData
        /\ objectPosition' = objectPosition
        /\ calls' = calls
        /\ ~Faults]_vars

\* C14: the rejection of a persistence call issues no call, leaves the
\* displayed position and the session as they are, and a start handled
\* after a rejection is accepted as any other; calls never outnumber the
\* accepted starts.
C14_RejectionLeavesGestureDone ==
  /\ [][lastEvent'.kind = "rejected" =>
          /\ calls' = calls
          /\ objectPosition' = objectPosition
          /\ dragData' = dragData]_vars
  /\ [][(Handles(StartKinds) /\ \E i \in DOMAIN promises : promises[i] = "rejected")
         => IF AllowedBy(rendered.settings, lastEvent'.e)
              THEN dragData'.isDragging /\ starts' = starts + 1
              ELSE dragData' = dragData /\ starts' = starts]_vars
  /\ [](Len(calls) <= starts)

\* The only call of the first gesture was rejected while the session was
\* inactive, and a second start was then accepted; no other call was issued.
C14_Witness ==
  /\ promises = <<"rejected">>
  /\ Len(calls) = 1
  /\ lastEvent.kind \in StartKinds
  /\ starts = 2
  /\ dragData.isDragging

\* C15: a handled release of an active session leaves it inactive with the
\* call it issued still pending; while a call is pending a start is accepted
\* as any other, an active move moves the displayed position and an active
\* release issues one more pending call; no step alters a call issued before.
C15_SecondGestureWhileCallPending ==
  /\ [][Handles(ReleaseKinds) /\ dragData.isDragging =>
          /\ ~dragData'.isDragging
          /\ Len(calls') = Len(calls) + 1
          /\ promises' = Append(promises, "pending")]_vars
  /\ [][Handles(StartKinds) /\ Pending =>
          IF AllowedBy(rendered.settings, lastEvent'.e)
            THEN dragData'.isDragging /\ starts' = starts + 1
            ELSE dragData' = dragData /\ starts' = starts]_vars
  /\ [][Handles(MoveKinds) /\ dragData.isDragging /\ Pending =>
          LET p == PointerOf(lastEvent'.e)
          IN IF dragData.vertical
               THEN MovedTo(objectPosition'[2], objectPosition[2], dragData.y.v,
                            p.clientY, img.clientHeight)
               ELSE MovedTo(objectPosition'[1], objectPosition[1], dragData.x.v,
                            p.clientX, img.clientWidth)]_vars
  /\ [][SubSeq(calls', 1, Len(calls)) = calls]_vars

\* Two calls are outstanding at once: the second gesture moved the position
\* and was released while the call of the first was pending, and the first
\* call still carries the value read at the first release.
C15_Witness ==
  /\ promises = <<"pending", "pending">>
  /\ Len(calls) = 2
  /\ calls[1].patch = [y |-> 50000]
  /\ calls[2].patch = [y |-> 66667]
  /\ lastEvent.kind \in ReleaseKinds

\* C16: a handled release of an active session leaves it inactive with both
\* stored pointer coordinates null.
C16_ReleaseResetsSession ==
  [][Handles(ReleaseKinds) /\ dragData.isDragging =>
       /\ ~dragData'.isDragging
       /\ dragData'.x = Null
       /\ dragData'.y = Null]_vars

\* C17: while the session is active both stored coordinates are numbers; an
\* accepted start and a move handled while active store the client
\* coordinates of their event, whatever the move did to the position, and
\* no other step of an active session changes them.
C17_LastPointerStored ==
  /\ [](dragData.isDragging => IsFin(dragData.x) /\ IsFin(dragData.y))
  /\ [][AcceptsStart \/ (Handles(MoveKinds) /\ dragData.isDragging) =>
          LET p == PointerOf(lastEvent'.e)
          IN dragData'.x = Fin(p.clientX) /\ dragData'.y = Fin(p.clientY)]_vars
  /\ [][(/\ dragData.isDragging /\ dragData'.isDragging
          /\ ~AcceptsStart /\ ~Handles(MoveKinds))
         => dragData'.x = dragData.x /\ dragData'.y = dragData.y]_vars

\* In the first gesture of a banner displayed at y = 100%, a move dragged
\* further down: the position is still 100% and the pointer of the move is
\* stored.
C17_Witness ==
  /\ rendered.bannerData.y = Fin(150000)
  /\ starts = 1 /\ calls = <<>>
  /\ lastEvent.kind \in MoveKinds
  /\ dragData.isDragging /\ dragData.vertical
  /\ objectPosition[2] = Percent100
  /\ PointerOf(lastEvent.e).clientY = 50
  /\ dragData.y = Fin(50)

\* C18: every step taken while the session is active leaves it active,
\* except a release reaching an attached handler, which leaves it inactive:
\* moves, further starts, accepted or refused, events without the modifier
\* and edits of the settings keep it active.
C18_ActiveUntilRelease ==
  [][dragData.isDragging =>
       (dragData'.isDragging <=> ~Handles(ReleaseKinds))]_vars

\* The policy was "ctrl" at the render, the settings were edited since, and
\* a mouse press without ctrl came while the session was active: it is
\* still active.
C18_Witness ==
  /\ bannerDragModifier = "ctrl"
  /\ settings # rendered.settings
  /\ lastEvent.kind = "onmousedown"
  /\ "ctrl" \notin lastEvent.e.keys
  /\ starts = 1
  /\ dragData.isDragging

\* C19: a handled start changes neither the displayed position nor the
\* calls, a handled move issues no call, a handled release leaves the
\* displayed position; the position changes only in a move handled while
\* active and a call is issued only in a release handled while active.
C19_EffectsByEventKind ==
  /\ [][Handles(StartKinds) => objectPosition' = objectPosition /\ calls' = calls]_vars
  /\ [][Handles(MoveKinds) => calls' = calls]_vars
  /\ [][Handles(ReleaseKinds) => objectPosition' = objectPosition]_vars
  /\ [][objectPosition' # objectPosition => Handles(MoveKinds) /\ dragData.isDragging]_vars
  /\ [][calls' # calls => Handles(ReleaseKinds) /\ dragData.isDragging]_vars

\* A gesture moved y from 50% to 33.333% and its release committed it: the
\* position is the one the move wrote and the only call is the release's.
C19_Witness ==
  /\ lastEvent.kind = "onmouseup"
  /\ starts = 1
  /\ objectPosition = <<75000, 100000>>
  /\ calls = <<[path |-> filepath, patch |-> [y |-> 33333]]>>

\* C20: at a handled release of an active session, the displayed component
\* of the axis that is not in the patch of the call is the one displayed
\* when the session became active.
C20_OtherAxisKeptOverGesture ==
  [][Handles(ReleaseKinds) /\ dragData.isDragging =>
       LET other == 3 - AxisOf(calls'[Len(calls')].patch)
       IN objectPosition[other] = activatedAt[other]]_vars

====
